---------------------------- MODULE Spec2Model ----------------------------
(***************************************************************************)
(* A model of the roarm LeRobot integration: the Roarm robot adapter       *)
(* (connect, get_observation, send_action, teleop_safety_stop), the        *)
(* percentage/degree/radian conversions, the RoarmActionSafety velocity    *)
(* limiter and the RoarmTeleop leader-to-follower control loop.            *)
(*                                                                         *)
(* Numbers are exact rationals <<n, d>> (d > 0, lowest terms): the code's  *)
(* float arithmetic is modelled without rounding, so an equality below     *)
(* stands for "equal within floating-point tolerance" in the program.      *)
(***************************************************************************)
EXTENDS Integers, Sequences, FiniteSets, TLC

VARIABLES
    isConnected,   \* Roarm._is_connected per robot, RoarmTeleoperator._connected
    pose,          \* the device's joint angles in degrees, per adapter
    scenAction,    \* the action dict handed to send_action in this run
    call,          \* the last adapter call: its inputs, SDK calls and outcome
    limiter,       \* RoarmActionSafety.last_positions
    limOut,        \* the last transition.action returned by forward
    limIn,         \* the last transition.action given to forward
    limPrev,       \* the value forward last returned for each key (history)
    limSession,    \* keys forward has seen since the control session
                   \* (re)started, each with whether its latest target was
                   \* the first of the session (history)
    limTrace,      \* the first calls of forward on a new limiter, each with
                   \* the action given and the action returned (history)
    conv,          \* a conversion round trip: joint, percentage, degrees, back
    config,        \* each robot's RoarmConfig: port, host, how far its
                   \* construction got, and the link its Roarm opened
    camera,        \* is_connected of the camera of a Roarm that has one
    calibrated,    \* Roarm.is_calibrated of that Roarm
    cart,          \* a Cartesian trajectory loop: its arguments, its step
                   \* index, the pose it sent last and how many it has sent
    running,       \* RoarmTeleop.running
    thread,        \* RoarmTeleop.thread: 0 for None, else the thread's id
    tpc,           \* where each control-loop thread is in _control_loop
    tlocal,        \* each thread's tick in flight: what it read and will send
    caller,        \* the caller's context: where it is in start()/stop()
    hist           \* what has happened so far (history, not program state)

vars == <<isConnected, pose, scenAction, call, limiter, limOut, limIn,
          limPrev, limSession, limTrace, conv, config, camera, calibrated, cart, running, thread, tpc, tlocal, caller,
          hist>>

teleopVars == <<running, thread, tpc, tlocal, caller, hist>>

robotVars == <<isConnected, pose, scenAction, call>>
limiterVars == <<limiter, limOut, limIn, limPrev, limSession, limTrace>>
linkVars == <<camera, calibrated>>

-----------------------------------------------------------------------------
(* Bounds of the model *)

\* percentages tried are k * PctStep for k in -MaxPctK .. MaxPctK
PctStep == 75
MaxPctK == 2
\* device angles tried are k * PoseStep degrees for k in -MaxPoseK .. MaxPoseK
PoseStep == 120
MaxPoseK == 1
\* limiter targets tried are the integers 0 .. MaxTarget
MaxTarget == 1
\* round-trip percentages tried are k * ConvStep for k in -MaxConvK .. MaxConvK
ConvStep == 10
MaxConvK == 10
\* calls of forward followed from a new limiter, one key per call
MaxCalls == 3
\* a tick's measured duration, in half periods, is one of 0 .. MaxElapsed
MaxElapsed == 4
\* a trajectory's initial z is k * ZStep mm, k in 0 .. MaxZK
ZStep == 60
MaxZK == 2
\* its initial yaw and pitch are k * AngleStep degrees, k in -MaxAngleK .. MaxAngleK
AngleStep == 80
MaxAngleK == 1
\* its distance or radius is k * DistStep mm, k in 1 .. MaxDistK
DistStep == 150
MaxDistK == 2
\* its number of cycles is one of 1 .. MaxCycles
MaxCycles == 2
\* control-loop threads one RoarmTeleop may have spawned
MaxThreads == 2

-----------------------------------------------------------------------------
(* Exact rational arithmetic *)

Abs(x) == IF x < 0 THEN -x ELSE x

RECURSIVE Gcd(_, _)
Gcd(a, b) == IF b = 0 THEN a ELSE Gcd(b, a % b)

Rat(n, d) ==
    LET s == IF d < 0 THEN -1 ELSE 1
        g == Gcd(Abs(n), Abs(d))
    IN  <<(s * n) \div g, (s * d) \div g>>

R(i) == <<i, 1>>
RAdd(a, b) == Rat(a[1] * b[2] + b[1] * a[2], a[2] * b[2])
RSub(a, b) == Rat(a[1] * b[2] - b[1] * a[2], a[2] * b[2])
RMul(a, b) == Rat(a[1] * b[1], a[2] * b[2])
RDiv(a, b) == Rat(a[1] * b[2], a[2] * b[1])
RLe(a, b) == a[1] * b[2] <= b[1] * a[2]
RLt(a, b) == a[1] * b[2] < b[1] * a[2]
RAbs(a) == <<Abs(a[1]), a[2]>>
\* np.sign
RSign(a) == IF a[1] > 0 THEN R(1) ELSE IF a[1] < 0 THEN R(-1) ELSE R(0)
\* np.clip(x, lo, hi) = minimum(maximum(x, lo), hi)
RClip(x, lo, hi) ==
    LET m == IF RLt(x, lo) THEN lo ELSE x
    IN  IF RLt(hi, m) THEN hi ELSE m

\* numpy's pi, as the rational 355/113
PiNum == 355
PiDen == 113
Deg2Rad(x) == RMul(x, Rat(PiNum, PiDen * 180))
Rad2Deg(x) == RMul(x, Rat(PiDen * 180, PiNum))

-----------------------------------------------------------------------------
(* RoarmConfig *)

JointNames == <<"shoulder_pan", "shoulder_lift", "elbow_flex",
                "wrist_flex", "wrist_roll", "gripper">>
Joints == {JointNames[i] : i \in 1..Len(JointNames)}

\* limits with elbow_flex taken as symmetric, like the shoulder_pan
JointLimitsDegSymmetricElbow ==
    [j \in Joints |->
        CASE j = "shoulder_pan"  -> <<-190, 190>>
          [] j = "shoulder_lift" -> <<-110, 110>>
          [] j = "elbow_flex"    -> <<-190, 190>>
          [] j = "wrist_flex"    -> <<-110, 110>>
          [] j = "wrist_roll"    -> <<-190, 190>>
          [] j = "gripper"       -> <<-10, 100>>]

JointLimitsDeg ==
    [j \in Joints |->
        CASE j = "shoulder_pan"  -> <<-190, 190>>
          [] j = "shoulder_lift" -> <<-110, 110>>
          [] j = "elbow_flex"    -> <<-70, 190>>
          [] j = "wrist_flex"    -> <<-110, 110>>
          [] j = "wrist_roll"    -> <<-190, 190>>
          [] j = "gripper"       -> <<-10, 100>>]

MinDeg(j) == R(JointLimitsDeg[j][1])
MaxDeg(j) == R(JointLimitsDeg[j][2])

HasGripper == TRUE
GripperName == "gripper"

PosKey(j) == j \o ".pos"
PosKeys == {PosKey(j) : j \in Joints}
GripperKey == PosKey(GripperName)

Robots == {"leader", "follower"}
\* the two Roarm adapters of a RoarmTeleop and one RoarmTeleoperator
Teleoperator == "teleoperator"
Adapters == Robots \cup {Teleoperator}


-----------------------------------------------------------------------------
(* Unit conversions *)

\* the mapping without the clamp to [-100, +100]
PercentToDegUnclamped(j, value) ==
    RAdd(MinDeg(j),
         RDiv(RMul(RAdd(value, R(100)), RSub(MaxDeg(j), MinDeg(j))), R(200)))

\* Roarm.send_action: percentage in [-100, +100] to degrees of joint j
PercentToDeg(j, value) ==
    IF j \in DOMAIN JointLimitsDeg
    THEN LET percentage == RClip(value, R(-100), R(100))
         IN  RAdd(MinDeg(j),
                  RDiv(RMul(RAdd(percentage, R(100)),
                            RSub(MaxDeg(j), MinDeg(j))),
                       R(200)))
    ELSE RClip(value, R(-180), R(180))

\* the mapping measured from zero instead of from min_deg
DegToPercentFromZero(j, angle_deg) ==
    RClip(RSub(RMul(RDiv(angle_deg, RSub(MaxDeg(j), MinDeg(j))), R(200)),
               R(100)),
          R(-100), R(100))

\* a get_action that maps without clipping the result
DegToPercentUnclamped(j, angle_deg) ==
    RSub(RMul(RDiv(RSub(angle_deg, MinDeg(j)),
                   RSub(MaxDeg(j), MinDeg(j))),
              R(200)),
         R(100))

\* RoarmTeleoperator.get_action: degrees of joint j to percentage
DegToPercent(j, angle_deg) ==
    LET percentage ==
            RSub(RMul(RDiv(RSub(angle_deg, MinDeg(j)),
                           RSub(MaxDeg(j), MinDeg(j))),
                      R(200)),
                 R(100))
    IN  RClip(percentage, R(-100), R(100))

\* Roarm.send_action: gripper entry, read as radians
GripperToDeg(value) == RClip(Rad2Deg(value), R(0), R(90))

-----------------------------------------------------------------------------
(* The SDK device, as the adapter sees it *)

\* joints_angle_get / gripper_angle_get: a value, nothing (None), or an exception
ReadOutcomes == {"ok", "none", "raise"}
\* joints_angle_ctrl / gripper_angle_ctrl / torque_set: returns or raises
WriteOutcomes == {"ok", "raise"}

NoCmd == <<>>
EmptyDict == [k \in {} |-> R(0)]
NoSdk == [reads |-> 0, gripReads |-> 0, jointWrites |-> 0, gripWrites |-> 0,
          torqueSets |-> <<>>, opens |-> 0]

JointOfKey(k) == CHOOSE j \in Joints : PosKey(j) = k

-----------------------------------------------------------------------------
(* Roarm.get_observation *)

\* the joint part of the observation (roarm.py 240-252)
JointObs(p, readOut) ==
    CASE readOut = "ok"    -> [k \in PosKeys |-> Deg2Rad(R(p[JointOfKey(k)]))]
      [] readOut = "raise" -> [k \in PosKeys |-> R(0)]
      [] readOut = "none"  -> EmptyDict

\* the gripper part of the observation (roarm.py 254-262)
GripperObs(p, gripOut) ==
    IF HasGripper
    THEN [k \in {GripperKey} |->
            IF gripOut = "ok" THEN Deg2Rad(R(p[GripperName])) ELSE R(0)]
    ELSE EmptyDict

\* obs_dict of a connected robot whose device holds pose p
ObsDict(p, readOut, gripOut) == GripperObs(p, gripOut) @@ JointObs(p, readOut)

GetObservationOp(conn, p, readOut, gripOut) ==
    IF ~conn
    THEN [result |-> "ConnectionError", obs |-> EmptyDict, sdk |-> NoSdk]
    ELSE [result |-> "returned",
          obs |-> ObsDict(p, readOut, gripOut),
          sdk |-> [NoSdk EXCEPT !.reads = 1,
                                !.gripReads = IF HasGripper THEN 1 ELSE 0]]

-----------------------------------------------------------------------------
(* Roarm.send_action *)

\* the angles_deg list built by the loop over joint_names, from joint i on,
\* given the part built so far; reads counts the get_observation calls made
\* for absent keys, err is the KeyError of current_obs[key]
RECURSIVE AnglesDeg(_, _, _, _)
AnglesDeg(i, action, obs, acc) ==
    IF i > Len(JointNames)
    THEN acc
    ELSE IF PosKey(JointNames[i]) \in DOMAIN action
         THEN AnglesDeg(i + 1, action, obs,
                  [acc EXCEPT !.angles = Append(@,
                      PercentToDeg(JointNames[i],
                                   action[PosKey(JointNames[i])]))])
         ELSE IF PosKey(JointNames[i]) \notin DOMAIN obs
              THEN [angles |-> <<>>, reads |-> acc.reads + 1, err |-> TRUE]
              ELSE AnglesDeg(i + 1, action, obs,
                       [acc EXCEPT
                          !.angles = Append(@,
                              Rad2Deg(obs[PosKey(JointNames[i])])),
                          !.reads = @ + 1])

NoAngles == [angles |-> <<>>, reads |-> 0, err |-> FALSE]

\* a send_action that rejects a value outside [-100, +100]
DispatchRejecting(action, built) ==
    IF \E k \in DOMAIN action : RLt(R(100), RAbs(action[k]))
    THEN [result |-> "ValueError", sdk |-> NoSdk,
          jointCmd |-> NoCmd, gripCmd |-> NoCmd, ret |-> EmptyDict]
    ELSE [result |-> IF built.err THEN "KeyError" ELSE "returned",
          sdk |-> [NoSdk EXCEPT !.reads = built.reads,
                                !.jointWrites = IF built.err THEN 0 ELSE 1],
          jointCmd |-> built.angles, gripCmd |-> NoCmd, ret |-> action]

\* the calls send_action makes once angles_deg is built, and its return value
Dispatch(action, built) ==
    IF built.err
    THEN [result |-> "KeyError",
          sdk |-> [NoSdk EXCEPT !.reads = built.reads,
                                !.gripReads = IF HasGripper
                                              THEN built.reads ELSE 0],
          jointCmd |-> NoCmd, gripCmd |-> NoCmd, ret |-> EmptyDict]
    ELSE [result |-> "returned",
          sdk |-> [NoSdk EXCEPT
                     !.reads = built.reads,
                     !.gripReads = IF HasGripper THEN built.reads ELSE 0,
                     !.jointWrites = 1,
                     !.gripWrites =
                         IF HasGripper /\ GripperKey \in DOMAIN action
                         THEN 1 ELSE 0],
          jointCmd |-> built.angles,
          gripCmd |-> IF HasGripper /\ GripperKey \in DOMAIN action
                      THEN <<GripperToDeg(action[GripperKey])>>
                      ELSE NoCmd,
          ret |-> action]

SendActionOp(conn, action, p, readOut, gripOut) ==
    IF ~conn
    THEN [result |-> "ConnectionError", sdk |-> NoSdk,
          jointCmd |-> NoCmd, gripCmd |-> NoCmd, ret |-> EmptyDict]
    ELSE Dispatch(action,
                  AnglesDeg(1, action, ObsDict(p, readOut, gripOut), NoAngles))

-----------------------------------------------------------------------------
(* Roarm.connect (calibrate=False, no cameras), disconnect, teleop_safety_stop *)

\* the verification read decides; configure() swallows a torque failure
ConnectOp(conn, verifyOut) ==
    IF verifyOut = "raise"
    THEN [result |-> "ConnectionError", conn |-> conn,
          sdk |-> [NoSdk EXCEPT !.reads = 1]]
    ELSE [result |-> "returned", conn |-> TRUE,
          sdk |-> [NoSdk EXCEPT !.reads = 1, !.torqueSets = <<1>>]]

DisconnectOp(conn) ==
    [result |-> "returned", conn |-> FALSE,
     sdk |-> [NoSdk EXCEPT !.torqueSets = <<0>>]]

\* the stop without its try/except
SafetyStopOpUncaught(conn, torqueOut) ==
    [result |-> IF torqueOut = "raise" THEN "raised" ELSE "returned",
     sdk |-> [NoSdk EXCEPT !.torqueSets = <<0>>]]

\* try: torque_set(cmd=0) except: pass
SafetyStopOp(conn, torqueOut) ==
    [result |-> "returned", sdk |-> [NoSdk EXCEPT !.torqueSets = <<0>>]]

-----------------------------------------------------------------------------
(* Roarm with a camera: is_connected, connect, disconnect *)

\* an is_connected that looks at _is_connected only
IsConnectedIgnoringCameras(conn, cam) == conn

\* is_connected: _is_connected and every camera connected
IsConnected(conn, cam) == conn /\ cam

\* connect(calibrate) of a Roarm with one camera: the verification read,
\* then the camera, then calibrate() if not calibrated, then configure();
\* _is_connected is set as soon as the read has returned. A failing
\* calibration fails at move_init, its first call to the device.
ConnectWithCameraOp(conn, cam, cal, calibrate, verifyOut, camOut, calOut) ==
    IF verifyOut = "raise"
    THEN [result |-> "ConnectionError", conn |-> conn, cam |-> cam,
          calibrated |-> cal, sdk |-> [NoSdk EXCEPT !.reads = 1]]
    ELSE IF camOut = "raise"
    THEN [result |-> "CameraError", conn |-> TRUE, cam |-> cam,
          calibrated |-> cal, sdk |-> [NoSdk EXCEPT !.reads = 1]]
    ELSE IF ~cal /\ calibrate /\ calOut = "raise"
    THEN [result |-> "CalibrationError", conn |-> TRUE, cam |-> TRUE,
          calibrated |-> cal, sdk |-> [NoSdk EXCEPT !.reads = 1]]
    ELSE [result |-> "returned", conn |-> TRUE, cam |-> TRUE,
          calibrated |-> (cal \/ calibrate),
          sdk |-> [NoSdk EXCEPT
                     !.reads = IF ~cal /\ calibrate THEN 2 ELSE 1,
                     !.gripReads = IF ~cal /\ calibrate /\ HasGripper
                                   THEN 1 ELSE 0,
                     !.torqueSets = <<1>>]]

\* disconnect() of a Roarm with one camera: the camera first, outside any
\* try; then the torque release, whose failure is swallowed
DisconnectWithCameraOp(conn, cam, camOut, torqueOut) ==
    IF camOut = "raise"
    THEN [result |-> "CameraError", conn |-> conn, cam |-> cam,
          sdk |-> NoSdk]
    ELSE [result |-> "returned", conn |-> FALSE, cam |-> FALSE,
          sdk |-> [NoSdk EXCEPT !.torqueSets = <<0>>]]

-----------------------------------------------------------------------------
(* RoarmTeleoperator: connect, disconnect, get_action, get_observation *)

\* joints_angle_get as get_action tests it: also a list of fewer than 6 angles
ActionReadOutcomes == ReadOutcomes \cup {"short"}

\* connect(): returns at once when connected; else opens the SDK and releases
\* the torque, and either exception leaves _connected False
\* a connect() without the "already connected" return
TeleoperatorConnectOpReopening(conn, openOut, torqueOut) ==
    IF openOut = "raise"
    THEN [result |-> "SdkError", conn |-> conn,
          sdk |-> [NoSdk EXCEPT !.opens = 1]]
    ELSE IF torqueOut = "raise"
    THEN [result |-> "SdkError", conn |-> conn,
          sdk |-> [NoSdk EXCEPT !.opens = 1, !.torqueSets = <<0>>]]
    ELSE [result |-> "returned", conn |-> TRUE,
          sdk |-> [NoSdk EXCEPT !.opens = 1, !.torqueSets = <<0>>]]

TeleoperatorConnectOp(conn, openOut, torqueOut) ==
    IF conn
    THEN [result |-> "returned", conn |-> TRUE, sdk |-> NoSdk]
    ELSE IF openOut = "raise"
    THEN [result |-> "SdkError", conn |-> FALSE,
          sdk |-> [NoSdk EXCEPT !.opens = 1]]
    ELSE IF torqueOut = "raise"
    THEN [result |-> "SdkError", conn |-> FALSE,
          sdk |-> [NoSdk EXCEPT !.opens = 1, !.torqueSets = <<0>>]]
    ELSE [result |-> "returned", conn |-> TRUE,
          sdk |-> [NoSdk EXCEPT !.opens = 1, !.torqueSets = <<0>>]]

\* disconnect(): torque back on (a failure is swallowed), _connected False
TeleoperatorDisconnectOp(conn, torqueOut) ==
    IF ~conn
    THEN [result |-> "returned", conn |-> FALSE, sdk |-> NoSdk]
    ELSE [result |-> "returned", conn |-> FALSE,
          sdk |-> [NoSdk EXCEPT !.torqueSets = <<1>>]]

\* get_observation(): the device's angles in radians under one key; a
\* failed read raises
TeleoperatorGetObservationOp(conn, p, readOut) ==
    IF ~conn
    THEN [result |-> "RuntimeError", ret |-> EmptyDict, sdk |-> NoSdk]
    ELSE IF readOut = "raise"
    THEN [result |-> "SdkError", ret |-> EmptyDict,
          sdk |-> [NoSdk EXCEPT !.reads = 1]]
    ELSE IF readOut \in {"none", "short"}
    THEN [result |-> "RuntimeError", ret |-> EmptyDict,
          sdk |-> [NoSdk EXCEPT !.reads = 1]]
    ELSE [result |-> "returned",
          ret |-> [k \in {"observation.state"} |->
                      [i \in 1 .. Len(JointNames) |->
                          Deg2Rad(R(p[JointNames[i]]))]],
          sdk |-> [NoSdk EXCEPT !.reads = 1]]

\* get_action(): the device's angles as percentages; a failed read raises
GetActionOp(conn, p, readOut) ==
    IF ~conn
    THEN [result |-> "RuntimeError", ret |-> EmptyDict, sdk |-> NoSdk]
    ELSE IF readOut = "raise"
    THEN [result |-> "SdkError", ret |-> EmptyDict,
          sdk |-> [NoSdk EXCEPT !.reads = 1]]
    ELSE IF readOut \in {"none", "short"}
    THEN [result |-> "RuntimeError", ret |-> EmptyDict,
          sdk |-> [NoSdk EXCEPT !.reads = 1]]
    ELSE [result |-> "returned",
          ret |-> [k \in PosKeys |->
                      DegToPercent(JointOfKey(k), R(p[JointOfKey(k)]))],
          sdk |-> [NoSdk EXCEPT !.reads = 1]]

-----------------------------------------------------------------------------
(* RoarmActionSafety *)

\* the constructor's defaults
MaxJointVelocity == R(3)
MaxGripperVelocity == R(2)
Dt == Rat(1, 10)
SafetyJointNames == JointNames
SafetyGripperName == GripperName

\* a limiter that clamps only upward jumps
LimitStepUpOnly(last, key, target_pos, max_velocity) ==
    IF key \in DOMAIN last
    THEN IF RLt(RMul(max_velocity, Dt), RSub(target_pos, last[key]))
         THEN RAdd(last[key], RMul(max_velocity, Dt))
         ELSE target_pos
    ELSE target_pos

\* one key's velocity limit: the value written back to transition.action[key]
\* and to last_positions[key]
LimitStep(last, key, target_pos, max_velocity) ==
    IF key \in DOMAIN last
    THEN IF RLt(RMul(max_velocity, Dt), RAbs(RSub(target_pos, last[key])))
         THEN RAdd(last[key],
                   RMul(RSign(RSub(target_pos, last[key])),
                        RMul(max_velocity, Dt)))
         ELSE target_pos
    ELSE target_pos

\* a joint loop that stores the raw target instead of the limited value
JointPassStoringTarget(io) ==
    LET keys == {PosKey(SafetyJointNames[i]) : i \in 1..Len(SafetyJointNames)}
                    \cap DOMAIN io.action
        lim == [k \in keys |->
                   LimitStep(io.last, k, io.action[k], MaxJointVelocity)]
    IN  [action |-> lim @@ io.action,
         last |-> [k \in keys |-> io.action[k]] @@ io.last]

\* the "Check joint velocities" loop: each present key of joint_names is
\* limited and stored; io is [action, last]
JointPass(io) ==
    LET keys == {PosKey(SafetyJointNames[i]) : i \in 1..Len(SafetyJointNames)}
                    \cap DOMAIN io.action
        lim == [k \in keys |->
                   LimitStep(io.last, k, io.action[k], MaxJointVelocity)]
    IN  [action |-> lim @@ io.action, last |-> lim @@ io.last]

\* a gripper block that replaces last_positions instead of updating it
GripperPassReplacing(io) ==
    LET keys == {PosKey(SafetyGripperName)} \cap DOMAIN io.action
        lim == [k \in keys |->
                   LimitStep(io.last, k, io.action[k], MaxGripperVelocity)]
    IN  [action |-> lim @@ io.action,
         last |-> IF keys = {} THEN io.last ELSE lim]

\* the "Check gripper velocity" block, run after the loop
GripperPass(io) ==
    LET keys == {PosKey(SafetyGripperName)} \cap DOMAIN io.action
        lim == [k \in keys |->
                   LimitStep(io.last, k, io.action[k], MaxGripperVelocity)]
    IN  [action |-> lim @@ io.action, last |-> lim @@ io.last]

\* RoarmActionSafety.forward
ForwardOp(last, action) == GripperPass(JointPass([action |-> action, last |-> last]))

-----------------------------------------------------------------------------
(* Inputs *)

PctInputs == {R(k * PctStep) : k \in -MaxPctK .. MaxPctK}
PoseAngles == {k * PoseStep : k \in -MaxPoseK .. MaxPoseK}
PoseSet == {[j \in Joints |-> d] : d \in PoseAngles}
ZeroPose == [j \in Joints |-> 0]
ActionSet ==
    {[k \in {PosKey(j) : j \in present} |-> v] :
        present \in SUBSET Joints, v \in PctInputs}

LimInputKeys == {PosKey("elbow_flex"), GripperKey}
TargetSet == {R(k) : k \in 0 .. MaxTarget}
LimActionSet == UNION {[keys -> TargetSet] : keys \in SUBSET LimInputKeys}

NoCall == [op |-> "none", robot |-> "none", result |-> "none", sdk |-> NoSdk,
           jointCmd |-> NoCmd, gripCmd |-> NoCmd, obs |-> EmptyDict,
           action |-> EmptyDict, ret |-> EmptyDict,
           readOut |-> "none", gripOut |-> "none", writeOut |-> "none"]

-----------------------------------------------------------------------------
(* The Roarm adapter as a state machine: one robot, any order of calls *)

SendRobots == {"follower"}

InitLimiter ==
    /\ limiter = EmptyDict
    /\ limOut = EmptyDict
    /\ limIn = EmptyDict
    /\ limPrev = EmptyDict
    /\ limSession = EmptyDict
    /\ limTrace = <<>>

\* RoarmConfig.__post_init__: exactly one of port and host is accepted
PostInitOpAllowingBoth(port, host) ==
    IF port = "None" /\ host = "None" THEN "ValueError" ELSE "validated"

PostInitOp(port, host) ==
    IF port = "None" /\ host = "None"
    THEN "ValueError"
    ELSE IF port # "None" /\ host # "None"
    THEN "ValueError"
    ELSE "validated"

\* Roarm.__init__: the SDK link opened for a validated configuration
RoarmInitOp(port, host) == IF port # "None" THEN "serial" ELSE "wifi"

\* the two configurations main() builds
MainConfig ==
    [r \in Robots |->
        [port |-> IF r = "leader" THEN "/dev/ttyUSB0" ELSE "/dev/ttyUSB1",
         host |-> "None", result |-> "validated", link |-> "serial"]]

\* no trajectory loop has been called
NoCart == [fn |-> "none"]

\* a Roarm as __init__ leaves it: cameras made and not connected,
\* _is_calibrated False
InitLinkIdle == camera = FALSE /\ calibrated = FALSE /\ cart = NoCart

InitConfigured == config = MainConfig /\ InitLinkIdle

NoConv == [phase |-> "idle", joint |-> "none", pct |-> R(0), deg |-> R(0),
           back |-> R(0)]
InitConv == conv = NoConv

Threads == 1 .. MaxThreads

\* a tick that has not read yet
NoTick == [readOut |-> "notread", action |-> EmptyDict, err |-> "none",
           jointCmd |-> NoCmd, gripCmd |-> NoCmd, writes |-> 0,
           writeOut |-> "none", elapsed |-> 0, slept |-> 0, timed |-> FALSE]

NoHist == [startFail |-> "none", startResult |-> "none",
           stopCalled |-> FALSE, stopMid |-> FALSE, tickAfterStop |-> FALSE,
           tickAfterFailure |-> FALSE, tickAfterOverrun |-> FALSE]

InitTeleopIdle ==
    /\ running = FALSE
    /\ thread = 0
    /\ tpc = [t \in Threads |-> "unborn"]
    /\ tlocal = [t \in Threads |-> NoTick]
    /\ caller = [pc |-> "init", result |-> "none"]
    /\ hist = NoHist

InitSend ==
    /\ isConnected = [r \in Adapters |-> FALSE]
    /\ pose \in {[r \in Adapters |-> IF r = "follower" THEN p ELSE ZeroPose] :
                    p \in PoseSet}
    /\ scenAction \in ActionSet
    /\ call = NoCall
    /\ InitLimiter
    /\ InitConv
    /\ InitConfigured
    /\ InitTeleopIdle

Connect(r) ==
    \E verifyOut \in ReadOutcomes :
    \E res \in {ConnectOp(isConnected[r], verifyOut)} :
        /\ isConnected' = [isConnected EXCEPT ![r] = res.conn]
        /\ call' = [NoCall EXCEPT !.op = "connect", !.robot = r,
                                  !.result = res.result, !.sdk = res.sdk,
                                  !.readOut = verifyOut]
        /\ UNCHANGED <<pose, scenAction, limiterVars, conv, config, linkVars, cart, teleopVars>>

Disconnect(r) ==
    \E res \in {DisconnectOp(isConnected[r])} :
        /\ isConnected' = [isConnected EXCEPT ![r] = res.conn]
        /\ call' = [NoCall EXCEPT !.op = "disconnect", !.robot = r,
                                  !.result = res.result, !.sdk = res.sdk]
        /\ UNCHANGED <<pose, scenAction, limiterVars, conv, config, linkVars, cart, teleopVars>>

GetObservation(r) ==
    \E readOut \in ReadOutcomes, gripOut \in ReadOutcomes :
    \E res \in {GetObservationOp(isConnected[r], pose[r], readOut, gripOut)} :
        /\ call' = [NoCall EXCEPT !.op = "get_observation", !.robot = r,
                                  !.result = res.result, !.sdk = res.sdk,
                                  !.obs = res.obs,
                                  !.readOut = readOut, !.gripOut = gripOut]
        /\ UNCHANGED <<isConnected, pose, scenAction, limiterVars, conv, config, linkVars, cart,
                       teleopVars>>

SendAction(r) ==
    \E readOut \in ReadOutcomes, gripOut \in ReadOutcomes :
    \E res \in {SendActionOp(isConnected[r], scenAction, pose[r],
                             readOut, gripOut)} :
        /\ call' = [NoCall EXCEPT !.op = "send_action", !.robot = r,
                                  !.result = res.result, !.sdk = res.sdk,
                                  !.jointCmd = res.jointCmd,
                                  !.gripCmd = res.gripCmd,
                                  !.action = scenAction, !.ret = res.ret,
                                  !.readOut = readOut, !.gripOut = gripOut]
        /\ UNCHANGED <<isConnected, pose, scenAction, limiterVars, conv, config, linkVars, cart,
                       teleopVars>>

TeleopSafetyStop(r) ==
    \E torqueOut \in WriteOutcomes :
    \E res \in {SafetyStopOp(isConnected[r], torqueOut)} :
        /\ call' = [NoCall EXCEPT !.op = "teleop_safety_stop", !.robot = r,
                                  !.result = res.result, !.sdk = res.sdk,
                                  !.writeOut = torqueOut]
        /\ UNCHANGED <<isConnected, pose, scenAction, limiterVars, conv, config, linkVars, cart,
                       teleopVars>>

NextSend ==
    \E r \in SendRobots :
        \/ Connect(r)
        \/ Disconnect(r)
        \/ GetObservation(r)
        \/ SendAction(r)
        \/ TeleopSafetyStop(r)

SpecSend == InitSend /\ [][NextSend]_vars

-----------------------------------------------------------------------------
(* Reading positions: a Roarm's get_observation and a RoarmTeleoperator's   *)
(* get_action, each on its own device, in any order of calls                *)

InitRead ==
    /\ isConnected = [r \in Adapters |-> FALSE]
    /\ pose \in {[r \in Adapters |-> p] : p \in PoseSet}
    /\ scenAction = EmptyDict
    /\ call = NoCall
    /\ InitLimiter
    /\ InitConv
    /\ InitConfigured
    /\ InitTeleopIdle

TeleoperatorConnect ==
    \E openOut \in WriteOutcomes, torqueOut \in WriteOutcomes :
    \E res \in {TeleoperatorConnectOp(isConnected[Teleoperator],
                                      openOut, torqueOut)} :
        /\ isConnected' = [isConnected EXCEPT ![Teleoperator] = res.conn]
        /\ call' = [NoCall EXCEPT !.op = "connect", !.robot = Teleoperator,
                                  !.result = res.result, !.sdk = res.sdk,
                                  !.writeOut = torqueOut]
        /\ UNCHANGED <<pose, scenAction, limiterVars, conv, config, linkVars, cart, teleopVars>>

TeleoperatorDisconnect ==
    \E torqueOut \in WriteOutcomes :
    \E res \in {TeleoperatorDisconnectOp(isConnected[Teleoperator],
                                         torqueOut)} :
        /\ isConnected' = [isConnected EXCEPT ![Teleoperator] = res.conn]
        /\ call' = [NoCall EXCEPT !.op = "disconnect", !.robot = Teleoperator,
                                  !.result = res.result, !.sdk = res.sdk,
                                  !.writeOut = torqueOut]
        /\ UNCHANGED <<pose, scenAction, limiterVars, conv, config, linkVars, cart, teleopVars>>

GetAction ==
    \E readOut \in ActionReadOutcomes :
    \E res \in {GetActionOp(isConnected[Teleoperator], pose[Teleoperator],
                            readOut)} :
        /\ call' = [NoCall EXCEPT !.op = "get_action", !.robot = Teleoperator,
                                  !.result = res.result, !.sdk = res.sdk,
                                  !.ret = res.ret, !.readOut = readOut]
        /\ UNCHANGED <<isConnected, pose, scenAction, limiterVars, conv, config, linkVars, cart,
                       teleopVars>>

NextRead ==
    \/ \E r \in SendRobots :
          \/ Connect(r)
          \/ Disconnect(r)
          \/ GetObservation(r)
    \/ TeleoperatorConnect
    \/ TeleoperatorDisconnect
    \/ GetAction

SpecRead == InitRead /\ [][NextRead]_vars

-----------------------------------------------------------------------------
(* The connection life cycle: a Roarm with one camera, and the teleoperator *)

LinkRobot == "follower"

\* the actions send_action is given here: none of the keys, or all of them
LinkActionSet == {a \in ActionSet : DOMAIN a \in {{}, PosKeys}}

InitLink ==
    /\ isConnected = [r \in Adapters |-> FALSE]
    /\ pose \in {[r \in Adapters |-> p] : p \in PoseSet}
    /\ scenAction \in LinkActionSet
    /\ call = NoCall
    /\ InitLimiter
    /\ InitConv
    /\ InitConfigured
    /\ InitTeleopIdle

LinkConnect ==
    \E calibrate \in BOOLEAN, verifyOut \in ReadOutcomes,
       camOut \in WriteOutcomes, calOut \in WriteOutcomes :
    \E res \in {ConnectWithCameraOp(isConnected[LinkRobot], camera,
                                    calibrated, calibrate, verifyOut,
                                    camOut, calOut)} :
        /\ isConnected' = [isConnected EXCEPT ![LinkRobot] = res.conn]
        /\ camera' = res.cam
        /\ calibrated' = res.calibrated
        /\ call' = [NoCall EXCEPT !.op = "connect", !.robot = LinkRobot,
                                  !.result = res.result, !.sdk = res.sdk,
                                  !.readOut = verifyOut]
        /\ UNCHANGED <<pose, scenAction, limiterVars, conv, config, cart, teleopVars>>

LinkDisconnect ==
    \E camOut \in WriteOutcomes, torqueOut \in WriteOutcomes :
    \E res \in {DisconnectWithCameraOp(isConnected[LinkRobot], camera,
                                       camOut, torqueOut)} :
        /\ isConnected' = [isConnected EXCEPT ![LinkRobot] = res.conn]
        /\ camera' = res.cam
        /\ call' = [NoCall EXCEPT !.op = "disconnect", !.robot = LinkRobot,
                                  !.result = res.result, !.sdk = res.sdk,
                                  !.writeOut = torqueOut]
        /\ UNCHANGED <<pose, scenAction, limiterVars, conv, config, calibrated,
                       cart, teleopVars>>

\* the camera drops out on its own (unplugged, its stream lost)
CameraLost ==
    /\ camera
    /\ camera' = FALSE
    /\ call' = [NoCall EXCEPT !.op = "camera_lost", !.robot = LinkRobot]
    /\ UNCHANGED <<isConnected, pose, scenAction, limiterVars, conv, config,
                   calibrated, cart, teleopVars>>

LinkGetObservation ==
    \E readOut \in ReadOutcomes, gripOut \in ReadOutcomes :
    \E res \in {GetObservationOp(IsConnected(isConnected[LinkRobot], camera),
                                 pose[LinkRobot], readOut, gripOut)} :
        /\ call' = [NoCall EXCEPT !.op = "get_observation",
                                  !.robot = LinkRobot,
                                  !.result = res.result, !.sdk = res.sdk,
                                  !.obs = res.obs,
                                  !.readOut = readOut, !.gripOut = gripOut]
        /\ UNCHANGED <<isConnected, pose, scenAction, limiterVars, conv, config, linkVars, cart,
                       teleopVars>>

LinkSendAction ==
    \E readOut \in ReadOutcomes, gripOut \in ReadOutcomes :
    \E res \in {SendActionOp(IsConnected(isConnected[LinkRobot], camera),
                             scenAction, pose[LinkRobot], readOut, gripOut)} :
        /\ call' = [NoCall EXCEPT !.op = "send_action", !.robot = LinkRobot,
                                  !.result = res.result, !.sdk = res.sdk,
                                  !.jointCmd = res.jointCmd,
                                  !.gripCmd = res.gripCmd,
                                  !.action = scenAction, !.ret = res.ret,
                                  !.readOut = readOut, !.gripOut = gripOut]
        /\ UNCHANGED <<isConnected, pose, scenAction, limiterVars, conv, config, linkVars, cart,
                       teleopVars>>

TeleoperatorGetObservation ==
    \E readOut \in ActionReadOutcomes :
    \E res \in {TeleoperatorGetObservationOp(isConnected[Teleoperator],
                                             pose[Teleoperator], readOut)} :
        /\ call' = [NoCall EXCEPT !.op = "get_observation",
                                  !.robot = Teleoperator,
                                  !.result = res.result, !.sdk = res.sdk,
                                  !.ret = res.ret, !.readOut = readOut]
        /\ UNCHANGED <<isConnected, pose, scenAction, limiterVars, conv, config, linkVars, cart,
                       teleopVars>>

NextLink ==
    \/ LinkConnect
    \/ LinkDisconnect
    \/ CameraLost
    \/ LinkGetObservation
    \/ LinkSendAction
    \/ TeleoperatorConnect
    \/ TeleoperatorDisconnect
    \/ GetAction
    \/ TeleoperatorGetObservation

SpecLink == InitLink /\ [][NextLink]_vars

-----------------------------------------------------------------------------
(* The Cartesian trajectory loops: smooth_line, smooth_circle_xz,           *)
(* smooth_dual_motion                                                       *)

RMax(a, b) == IF RLe(a, b) THEN b ELSE a
RMin(a, b) == IF RLe(a, b) THEN a ELSE b

\* math.sin of x degrees, 0 <= x <= 180, by Bhaskara's rational formula
\* (exact at 0, 30, 90, 150 and 180 degrees, within 0.002 elsewhere)
SinDeg(x) ==
    RDiv(RMul(R(4), RMul(x, RSub(R(180), x))),
         RSub(R(40500), RMul(x, RSub(R(180), x))))

\* math.sin(2 * math.pi * n / d)
SinTurn(n, d) ==
    IF 2 * (n % d) <= d
    THEN SinDeg(Rat(360 * (n % d), d))
    ELSE RSub(R(0), SinDeg(RSub(Rat(360 * (n % d), d), R(180))))

\* math.cos(2 * math.pi * n / d)
CosTurn(n, d) == SinTurn(4 * n + d, 4 * d)

\* total_steps = int(duration_sec * fps), the duration given in tenths of a
\* second
TotalSteps(tenths, fps) == (tenths * fps) \div 10

\* a z guard that acts on motion along z only
EnsureZOnAxisOnly(axis, z) == IF axis = 2 THEN RMax(R(50), z) ELSE z

\* smooth_line: if axis == 2 or new_pose[2] < 50.0: max(50.0, new_pose[2])
EnsureZ(axis, z) ==
    IF axis = 2 \/ RLt(z, R(50)) THEN RMax(R(50), z) ELSE z

\* yaw: max(0.0, min(85.0, initial + 15.0 * progress))
YawOf(initial, progress) ==
    RMax(R(0), RMin(R(85), RAdd(initial, RMul(R(15), progress))))

\* pitch: max(-85.0, min(85.0, initial + 30.0 * progress))
PitchOf(initial, progress) ==
    RMax(R(-85), RMin(R(85), RAdd(initial, RMul(R(30), progress))))

\* smooth_line: the pose of step i; poses are <<x, y, z, roll, pitch, yaw>>,
\* Python index k at position k + 1
SmoothLinePose(a, i) ==
    LET progress == SinTurn(a.cycles * i, a.total)
        moved == [a.initial EXCEPT ![a.axis + 1] =
                     RAdd(@, RDiv(RMul(R(a.distance), progress), R(2)))]
    IN  [k \in 1 .. 6 |->
            CASE k = 6 /\ a.rotate -> YawOf(a.initial[6], progress)
              [] k = 5 /\ a.tilt -> PitchOf(a.initial[5], progress)
              [] k = 3 -> EnsureZ(a.axis, moved[3])
              [] OTHER -> moved[k]]

\* smooth_circle_xz: the centre is raised when the circle would go below
\* 50 mm
CircleCenterZ(z, radius) ==
    IF RLt(RSub(z, R(radius)), R(50)) THEN R(50 + radius) ELSE z

\* smooth_circle_xz: the pose of step i
SmoothCircleXzPose(a, i) ==
    [k \in 1 .. 6 |->
        CASE k = 1 -> RAdd(a.initial[1],
                           RMul(R(a.distance), CosTurn(i, a.total)))
          [] k = 3 -> RMax(R(50),
                           RAdd(CircleCenterZ(a.initial[3], a.distance),
                                RMul(R(a.distance), SinTurn(i, a.total))))
          [] OTHER -> a.initial[k]]

\* smooth_dual_motion: the pose of step i (distance_mm = 180)
SmoothDualMotionPose(a, i) ==
    LET progress == SinTurn(a.cycles * i, a.total)
        z_progress == IF a.invert THEN RSub(R(0), progress) ELSE progress
    IN  [k \in 1 .. 6 |->
            CASE k = 6 -> YawOf(a.initial[6], progress)
              [] k = 5 -> PitchOf(a.initial[5], progress)
              [] k = 3 -> RMax(R(50),
                               RAdd(a.initial[3],
                                    RDiv(RMul(R(180), z_progress), R(2))))
              [] OTHER -> a.initial[k]]

\* the arguments the loops are called with
InitialPoses ==
    {<<R(200), R(0), R(z * ZStep), R(0), R(g * AngleStep), R(g * AngleStep)>> :
        z \in 0 .. MaxZK, g \in -MaxAngleK .. MaxAngleK}
Distances == {k * DistStep : k \in 1 .. MaxDistK}
Durations == {0, 3, 5, 10}
FpsSet == {4, 12}
AxisSet == {0, 2}

CartArgs ==
    {[fn |-> "smooth_line", initial |-> p, axis |-> x, distance |-> d,
      cycles |-> c, rotate |-> r, tilt |-> t, invert |-> FALSE,
      tenths |-> u, fps |-> f, total |-> TotalSteps(u, f)] :
        p \in InitialPoses, x \in AxisSet, d \in Distances,
        c \in 1 .. MaxCycles, r \in BOOLEAN, t \in BOOLEAN,
        u \in Durations, f \in FpsSet}
    \cup
    {[fn |-> "smooth_circle_xz", initial |-> p, axis |-> 2, distance |-> d,
      cycles |-> 1, rotate |-> FALSE, tilt |-> FALSE, invert |-> FALSE,
      tenths |-> u, fps |-> f, total |-> TotalSteps(u, f)] :
        p \in InitialPoses, d \in Distances, u \in Durations, f \in FpsSet}
    \cup
    {[fn |-> "smooth_dual_motion", initial |-> p, axis |-> 2,
      distance |-> 180, cycles |-> c, rotate |-> TRUE, tilt |-> TRUE,
      invert |-> v, tenths |-> u, fps |-> f, total |-> TotalSteps(u, f)] :
        p \in InitialPoses, c \in 1 .. MaxCycles, v \in BOOLEAN,
        u \in Durations, f \in FpsSet}

InitCart ==
    /\ isConnected = [r \in Adapters |-> FALSE]
    /\ pose = [r \in Adapters |-> ZeroPose]
    /\ scenAction = EmptyDict
    /\ call = NoCall
    /\ InitLimiter
    /\ InitConv
    /\ config = MainConfig
    /\ camera = FALSE
    /\ calibrated = FALSE
    /\ InitTeleopIdle
    /\ cart \in {[fn |-> a.fn, args |-> a, i |-> 0, sent |-> 0,
                   pose |-> a.initial, done |-> FALSE] : a \in CartArgs}

\* one iteration of "for i in range(total_steps)": the pose is built and
\* handed to robot.pose_ctrl
CartIteration(fn, new_pose) ==
    /\ cart.fn = fn
    /\ ~cart.done
    /\ cart.i < cart.args.total
    /\ cart' = [cart EXCEPT !.pose = new_pose, !.i = @ + 1, !.sent = @ + 1]
    /\ UNCHANGED <<robotVars, limiterVars, conv, config, linkVars, teleopVars>>

SmoothLineStep == CartIteration("smooth_line", SmoothLinePose(cart.args, cart.i))

SmoothCircleXzStep ==
    CartIteration("smooth_circle_xz", SmoothCircleXzPose(cart.args, cart.i))

SmoothDualMotionStep ==
    CartIteration("smooth_dual_motion",
                  SmoothDualMotionPose(cart.args, cart.i))

\* the range is exhausted and the function returns
CartReturn ==
    /\ ~cart.done
    /\ cart.i >= cart.args.total
    /\ cart' = [cart EXCEPT !.done = TRUE]
    /\ UNCHANGED <<robotVars, limiterVars, conv, config, linkVars, teleopVars>>

NextCart ==
    \/ SmoothLineStep
    \/ SmoothCircleXzStep
    \/ SmoothDualMotionStep
    \/ CartReturn

SpecCart == InitCart /\ [][NextCart]_vars

-----------------------------------------------------------------------------
(* The velocity limiter as a state machine: forward called again and again *)

InitRobotIdle ==
    /\ isConnected = [r \in Adapters |-> FALSE]
    /\ pose = [r \in Adapters |-> ZeroPose]
    /\ scenAction = EmptyDict
    /\ call = NoCall

\* forward(transition) on the one limiter; a traced call is also recorded
ForwardCall(action, traced) ==
    \E res \in {ForwardOp(limiter, action)} :
        /\ limTrace' = IF traced
                       THEN Append(limTrace, [target |-> action,
                                              returned |-> res.action])
                       ELSE limTrace
        /\ limiter' = res.last
        /\ limOut' = res.action
        /\ limIn' = action
        /\ limPrev' = limOut @@ limPrev
        /\ limSession' = [k \in DOMAIN limSession \cup DOMAIN action |->
                             IF k \in DOMAIN action
                             THEN k \notin DOMAIN limSession
                             ELSE limSession[k]]
        /\ UNCHANGED <<robotVars, conv, config, linkVars, cart, teleopVars>>

Forward == \E action \in LimActionSet : ForwardCall(action, FALSE)

InitSafety ==
    InitRobotIdle /\ InitLimiter /\ InitConv /\ InitConfigured /\ InitTeleopIdle
NextSafety == Forward
SpecSafety == InitSafety /\ [][NextSafety]_vars

-----------------------------------------------------------------------------
(* The velocity limiter across control sessions: forward, and a session     *)
(* that restarts on the same RoarmActionSafety                              *)

\* a control session restarts on the same RoarmActionSafety: the class has
\* no reset of its own, and last_positions is assigned only by __init__ and
\* by forward
SessionRestartOp(last) == last

SessionRestart ==
    /\ limSession # EmptyDict
    /\ limiter' = SessionRestartOp(limiter)
    /\ limSession' = EmptyDict
    /\ UNCHANGED <<limOut, limIn, limPrev, limTrace, robotVars, conv, config, linkVars, cart,
                   teleopVars>>

NextRestart == Forward \/ SessionRestart
SpecRestart == InitSafety /\ [][NextRestart]_vars

-----------------------------------------------------------------------------
(* The velocity limiter from construction: the first calls of forward, each *)
(* with at most one key                                                     *)

LimSingleActionSet ==
    {EmptyDict} \cup {[x \in {k} |-> v] : k \in LimInputKeys, v \in TargetSet}

ForwardTraced ==
    /\ Len(limTrace) < MaxCalls
    /\ \E action \in LimSingleActionSet : ForwardCall(action, TRUE)

NextScenario == ForwardTraced
SpecScenario == InitSafety /\ [][NextScenario]_vars

-----------------------------------------------------------------------------
(* The conversions as a state machine: a percentage is mapped to degrees as *)
(* send_action does, then back to a percentage as get_action does          *)

ConvPcts == {R(k * ConvStep) : k \in -MaxConvK .. MaxConvK}

InitConvert ==
    /\ InitRobotIdle
    /\ InitLimiter
    /\ InitTeleopIdle
    /\ InitConfigured
    /\ conv \in {[NoConv EXCEPT !.phase = "input", !.joint = j, !.pct = p] :
                    j \in Joints, p \in ConvPcts}

ToNative ==
    /\ conv.phase = "input"
    /\ conv' = [conv EXCEPT !.phase = "native",
                            !.deg = PercentToDeg(conv.joint, conv.pct)]
    /\ UNCHANGED <<robotVars, limiterVars, teleopVars, config, linkVars, cart>>

ToPercentage ==
    /\ conv.phase = "native"
    /\ conv' = [conv EXCEPT !.phase = "back",
                            !.back = DegToPercent(conv.joint, conv.deg)]
    /\ UNCHANGED <<robotVars, limiterVars, teleopVars, config, linkVars, cart>>

NextConvert == ToNative \/ ToPercentage
SpecConvert == InitConvert /\ [][NextConvert]_vars

-----------------------------------------------------------------------------
(* Construction: a RoarmConfig for each robot, validated by __post_init__,  *)
(* then the Roarm built from it                                             *)

PortArgs == {"None", "/dev/ttyUSB0", "/dev/ttyUSB1"}
HostArgs == {"None", "192.168.1.100", "192.168.1.101"}

InitConstruct ==
    /\ InitRobotIdle
    /\ InitLimiter
    /\ conv = NoConv
    /\ InitTeleopIdle
    /\ InitLinkIdle
    /\ config \in [Robots -> {[port |-> p, host |-> h, result |-> "pending",
                                link |-> "none"] :
                                   p \in PortArgs, h \in HostArgs}]

\* RoarmConfig(...): the dataclass runs __post_init__
PostInit(r) ==
    /\ config[r].result = "pending"
    /\ config' = [config EXCEPT
                     ![r].result = PostInitOp(config[r].port, config[r].host)]
    /\ UNCHANGED <<robotVars, limiterVars, conv, teleopVars, linkVars, cart>>

\* Roarm(config)
RoarmInit(r) ==
    /\ config[r].result = "validated"
    /\ config[r].link = "none"
    /\ config' = [config EXCEPT
                     ![r].link = RoarmInitOp(config[r].port, config[r].host)]
    /\ UNCHANGED <<robotVars, limiterVars, conv, teleopVars, linkVars, cart>>

NextConstruct == \E r \in Robots : PostInit(r) \/ RoarmInit(r)
SpecConstruct == InitConstruct /\ [][NextConstruct]_vars

-----------------------------------------------------------------------------
(* RoarmTeleop: main() starts the teleoperation once and stops it once; the *)
(* control loop runs in its own thread                                      *)

\* the mirroring without the second connection check
StartOpFollowerUnchecked(leaderConn, followerConn, leaderVerify, leaderTorque, followerVerify) ==
    IF ConnectOp(leaderConn, leaderVerify).result # "returned"
    THEN [result |-> "ConnectionError", fail |-> "leader",
          leader |-> leaderConn, follower |-> followerConn, spawn |-> FALSE]
    ELSE [result |-> "returned",
          fail |-> IF followerVerify = "raise" THEN "follower" ELSE "none",
          leader |-> TRUE, follower |-> followerVerify # "raise",
          spawn |-> TRUE]

\* start() up to the spawn: leader.connect, leader torque release,
\* follower.connect; the first failure propagates to the caller
StartOp(leaderConn, followerConn, leaderVerify, leaderTorque, followerVerify) ==
    IF ConnectOp(leaderConn, leaderVerify).result # "returned"
    THEN [result |-> ConnectOp(leaderConn, leaderVerify).result,
          fail |-> "leader",
          leader |-> ConnectOp(leaderConn, leaderVerify).conn,
          follower |-> followerConn, spawn |-> FALSE]
    ELSE IF leaderTorque = "raise"
    THEN [result |-> "SdkError", fail |-> "torque",
          leader |-> ConnectOp(leaderConn, leaderVerify).conn,
          follower |-> followerConn, spawn |-> FALSE]
    ELSE IF ConnectOp(followerConn, followerVerify).result # "returned"
    THEN [result |-> ConnectOp(followerConn, followerVerify).result,
          fail |-> "follower",
          leader |-> ConnectOp(leaderConn, leaderVerify).conn,
          follower |-> ConnectOp(followerConn, followerVerify).conn,
          spawn |-> FALSE]
    ELSE [result |-> "returned", fail |-> "none",
          leader |-> ConnectOp(leaderConn, leaderVerify).conn,
          follower |-> ConnectOp(followerConn, followerVerify).conn,
          spawn |-> TRUE]

\* a loop that never looks at the flag
WhileTrue(flag) == TRUE

\* while self.running:
WhileRunning(flag) == flag

\* where the loop goes on after "except Exception as e: print(...)", and
\* where it would end without the try
UncaughtPc == "exited"
ExceptPc == "sleep"

\* dt = 1.0 / control_rate, in half periods
Period == 2

\* a loop that sleeps a whole period after every tick
SleepTimeFixed(elapsed) == Period

\* sleep_time = dt - elapsed; if sleep_time > 0: time.sleep(sleep_time)
SleepTime(elapsed) == IF Period - elapsed > 0 THEN Period - elapsed ELSE 0

\* the tick the thread ran last took longer than the period
TickOverran(t) == tlocal[t].timed /\ tlocal[t].elapsed > Period

\* the tick the thread ran last met a failure: the leader's read, an
\* exception out of an adapter, or the follower's write
TickFailed(t) ==
    \/ tlocal[t].readOut \in {"raise", "none"}
    \/ tlocal[t].err # "none"
    \/ tlocal[t].writeOut = "raise"

\* the action dict the loop builds from the leader's observation
ControlLoopAction(obs) == [k \in DOMAIN obs \cap PosKeys |-> obs[k]]

\* get_observation and send_action over the poses and outcomes the loop can
\* meet, computed once and looked up by the loop's steps
LoopObservations ==
    [conn \in BOOLEAN, p \in PoseSet, readOut \in ReadOutcomes,
     gripOut \in ReadOutcomes |-> GetObservationOp(conn, p, readOut, gripOut)]

LoopActions ==
    {EmptyDict} \cup
    {ControlLoopAction(LoopObservations[x].obs) :
        x \in {y \in DOMAIN LoopObservations :
                  LoopObservations[y].result = "returned"}}

LoopSends ==
    [conn \in BOOLEAN, action \in LoopActions, p \in PoseSet,
     readOut \in ReadOutcomes, gripOut \in ReadOutcomes |->
        SendActionOp(conn, action, p, readOut, gripOut)]

InTick(t) == tpc[t] \in {"read", "send", "write"}
Alive(t) == tpc[t] \notin {"unborn", "exited"}
\* self.thread is a thread that has not ended
ThreadAlive == IF thread = 0 THEN FALSE ELSE Alive(thread)
ThreadInTick == IF thread = 0 THEN FALSE ELSE InTick(thread)

InitTeleop ==
    /\ isConnected = [r \in Adapters |-> FALSE]
    /\ pose \in {[r \in Adapters |-> IF r \in Robots THEN q[r] ELSE ZeroPose] :
                    q \in [Robots -> PoseSet]}
    /\ scenAction = EmptyDict
    /\ call = NoCall
    /\ InitLimiter
    /\ InitConv
    /\ InitConfigured
    /\ InitTeleopIdle

\* start(), run by the caller from entry to return; the thread it spawns is
\* the next one not yet born
StartCall ==
    /\ \E t \in Threads :
        /\ tpc[t] = "unborn"
        /\ \A u \in Threads : u < t => tpc[u] # "unborn"
        /\ \E leaderVerify \in ReadOutcomes, leaderTorque \in WriteOutcomes,
              followerVerify \in ReadOutcomes :
           \E res \in {StartOp(isConnected["leader"], isConnected["follower"],
                               leaderVerify, leaderTorque, followerVerify)} :
              /\ isConnected' = [isConnected EXCEPT
                                    !["leader"] = res.leader,
                                    !["follower"] = res.follower]
              /\ running' = (IF res.spawn THEN TRUE ELSE running)
              /\ thread' = (IF res.spawn THEN t ELSE thread)
              /\ tpc' = (IF res.spawn THEN [tpc EXCEPT ![t] = "check"]
                         ELSE tpc)
              /\ caller' = [pc |-> IF res.spawn THEN "started" ELSE "failed",
                            result |-> res.result]
              /\ hist' = [hist EXCEPT !.startFail = res.fail,
                                      !.startResult = res.result]
              /\ UNCHANGED <<pose, scenAction, call, limiterVars, conv, config, linkVars, cart, tlocal>>

\* main(): teleop.start()
Start == caller.pc = "init" /\ StartCall

\* what stop() writes to the flag, and a stop() that leaves it set
StopFlagLeftSet == TRUE
StopFlag == FALSE

\* stop() up to the join: self.running = False
StopCall ==
    /\ running' = StopFlag
    /\ caller' = [caller EXCEPT !.pc = "joining"]
    /\ hist' = [hist EXCEPT !.stopCalled = TRUE,
                            !.stopMid = ThreadInTick]
    /\ UNCHANGED <<robotVars, limiterVars, conv, config, linkVars, cart, thread, tpc, tlocal>>

\* main(): teleop.stop() in the finally block
StopBegin == caller.pc \in {"started", "failed"} /\ StopCall

\* stop(): the join returned because the thread ended (or there is none);
\* then both robots are disconnected
StopJoined ==
    /\ caller.pc = "joining"
    /\ ~ThreadAlive
    /\ isConnected' = [isConnected EXCEPT
            !["leader"] = DisconnectOp(isConnected["leader"]).conn,
            !["follower"] = DisconnectOp(isConnected["follower"]).conn]
    /\ caller' = [pc |-> "done", result |-> "returned"]
    /\ UNCHANGED <<pose, scenAction, call, limiterVars, conv, config, linkVars, cart, running, thread,
                   tpc, tlocal, hist>>

\* stop(): join(timeout=2.0) gave up on a thread that is still inside a tick
\* (an adapter call may last longer than the timeout; the loop's own sleep,
\* at most one period of 0.1 s, does not)
StopJoinTimeout ==
    /\ caller.pc = "joining"
    /\ ThreadInTick
    /\ isConnected' = [isConnected EXCEPT
            !["leader"] = DisconnectOp(isConnected["leader"]).conn,
            !["follower"] = DisconnectOp(isConnected["follower"]).conn]
    /\ caller' = [pc |-> "done", result |-> "returned"]
    /\ UNCHANGED <<pose, scenAction, call, limiterVars, conv, config, linkVars, cart, running, thread,
                   tpc, tlocal, hist>>

\* _control_loop: the while test at the tick boundary
LoopCheck(t) ==
    /\ tpc[t] = "check"
    /\ IF WhileRunning(running)
       THEN /\ tpc' = [tpc EXCEPT ![t] = "read"]
            /\ tlocal' = [tlocal EXCEPT ![t] = NoTick]
            /\ hist' = [hist EXCEPT
                          !.tickAfterStop = @ \/ hist.stopCalled,
                          !.tickAfterFailure = @ \/ TickFailed(t),
                          !.tickAfterOverrun = @ \/ TickOverran(t)]
       ELSE /\ tpc' = [tpc EXCEPT ![t] = "exited"]
            /\ UNCHANGED <<tlocal, hist>>
    /\ UNCHANGED <<robotVars, limiterVars, conv, config, linkVars, cart, running, thread, caller>>

\* _control_loop: leader.get_observation() and the action built from it
TickRead(t) ==
    /\ tpc[t] = "read"
    /\ \E readOut \in ReadOutcomes, gripOut \in ReadOutcomes :
       \E res \in {LoopObservations[isConnected["leader"], pose["leader"],
                                     readOut, gripOut]} :
          IF res.result = "returned"
          THEN /\ tlocal' = [tlocal EXCEPT ![t] =
                      [NoTick EXCEPT !.readOut = readOut,
                                     !.action = ControlLoopAction(res.obs)]]
               /\ tpc' = [tpc EXCEPT ![t] = "send"]
          ELSE /\ tlocal' = [tlocal EXCEPT ![t] =
                      [NoTick EXCEPT !.err = res.result]]
               /\ tpc' = [tpc EXCEPT ![t] = ExceptPc]
    /\ UNCHANGED <<robotVars, limiterVars, conv, config, linkVars, cart, running, thread, caller, hist>>

\* _control_loop: follower.send_action(action) up to the device write
TickSend(t) ==
    /\ tpc[t] = "send"
    /\ \E readOut \in ReadOutcomes, gripOut \in ReadOutcomes :
       \E res \in {LoopSends[isConnected["follower"], tlocal[t].action,
                              pose["follower"], readOut, gripOut]} :
          IF res.result = "returned"
          THEN /\ tlocal' = [tlocal EXCEPT ![t].jointCmd = res.jointCmd,
                                           ![t].gripCmd = res.gripCmd]
               /\ tpc' = [tpc EXCEPT ![t] = "write"]
          ELSE /\ tlocal' = [tlocal EXCEPT ![t].err = res.result]
               /\ tpc' = [tpc EXCEPT ![t] = ExceptPc]
    /\ UNCHANGED <<robotVars, limiterVars, conv, config, linkVars, cart, running, thread, caller, hist>>

\* follower.send_action: joints_angle_ctrl (and gripper_angle_ctrl); a
\* failure of either is logged and swallowed
TickWrite(t) ==
    /\ tpc[t] = "write"
    /\ \E writeOut \in WriteOutcomes :
          tlocal' = [tlocal EXCEPT ![t].writes = @ + 1,
                                   ![t].writeOut = writeOut]
    /\ tpc' = [tpc EXCEPT ![t] = "sleep"]
    /\ UNCHANGED <<robotVars, limiterVars, conv, config, linkVars, cart, running, thread, caller, hist>>

\* _control_loop: the tick's duration is measured, the loop sleeps for what
\* is left of the period, then goes back to the while test
TickSleep(t) ==
    /\ tpc[t] = "sleep"
    /\ \E elapsed \in 0 .. MaxElapsed :
          tlocal' = [tlocal EXCEPT ![t].elapsed = elapsed,
                                   ![t].slept = SleepTime(elapsed),
                                   ![t].timed = TRUE]
    /\ tpc' = [tpc EXCEPT ![t] = "check"]
    /\ UNCHANGED <<robotVars, limiterVars, conv, config, linkVars, cart, running, thread, caller, hist>>

Next ==
    \/ Start
    \/ StopBegin
    \/ StopJoined
    \/ StopJoinTimeout
    \/ \E t \in Threads :
          \/ LoopCheck(t)
          \/ TickRead(t)
          \/ TickSend(t)
          \/ TickWrite(t)
          \/ TickSleep(t)

Spec == InitTeleop /\ [][Next]_vars

\* the loop runs in a thread of its own: a step it can take is eventually
\* taken (every adapter call returns, the sleep ends)
ThreadStep(t) ==
    LoopCheck(t) \/ TickRead(t) \/ TickSend(t) \/ TickWrite(t) \/ TickSleep(t)

SpecLive ==
    InitTeleop /\ [][Next]_vars /\ \A t \in Threads : WF_vars(ThreadStep(t))

-----------------------------------------------------------------------------
(* RoarmTeleop driven by any caller: start() and stop() in any order and    *)
(* any number of times, one call at a time                                  *)

InitSession ==
    /\ isConnected = [r \in Adapters |-> FALSE]
    /\ pose = [r \in Adapters |-> ZeroPose]
    /\ scenAction = EmptyDict
    /\ call = NoCall
    /\ InitLimiter
    /\ InitConv
    /\ InitConfigured
    /\ InitTeleopIdle

\* start() called again, with or without a stop() in between
StartAgain == caller.pc \in {"started", "failed", "done"} /\ StartCall

\* stop() called before any start() or after a stop()
StopAgain == caller.pc \in {"init", "done"} /\ StopCall

NextSession ==
    \/ Start
    \/ StartAgain
    \/ StopBegin
    \/ StopAgain
    \/ StopJoined
    \/ StopJoinTimeout
    \/ \E t \in Threads :
          \/ LoopCheck(t)
          \/ TickRead(t)
          \/ TickSend(t)
          \/ TickWrite(t)
          \/ TickSleep(t)

SpecSession == InitSession /\ [][NextSession]_vars

-----------------------------------------------------------------------------
(* Properties of Roarm.send_action and teleop_safety_stop, under SpecSend *)

Sent == call.op = "send_action" /\ call.jointCmd # NoCmd
InLimits(j, a) == RLe(MinDeg(j), a) /\ RLe(a, MaxDeg(j))
Present(i) == PosKey(JointNames[i]) \in DOMAIN call.action
JointIdx == 1 .. Len(JointNames)

\* C2: every joint angle send_action passes to joints_angle_ctrl lies within
\* that joint's configured [min_deg, max_deg], whatever the action's values
\* and whichever keys it holds, and a percentage in [-100, 100] is dispatched
\* as its affine image.
C2_DispatchedWithinLimits ==
    Sent =>
        \A i \in JointIdx :
            /\ InLimits(JointNames[i], call.jointCmd[i])
            /\ (Present(i) /\ RLe(R(-100), call.action[PosKey(JointNames[i])])
                           /\ RLe(call.action[PosKey(JointNames[i])], R(100)))
                => RMul(R(200), RSub(call.jointCmd[i], MinDeg(JointNames[i])))
                   = RMul(RAdd(call.action[PosKey(JointNames[i])], R(100)),
                          RSub(MaxDeg(JointNames[i]), MinDeg(JointNames[i])))

\* C4: for every joint with configured limits and every input percentage p
\* the commanded angle is min + (clamp(p,-100,100)+100)*(max-min)/200: p >= 100
\* commands max, p <= -100 commands min, and in between the affine image.
C4_AffineOfClamped ==
    Sent =>
        \A i \in JointIdx :
            Present(i) =>
                LET j == JointNames[i]
                    p == call.action[PosKey(j)]
                    a == call.jointCmd[i]
                IN  /\ RLe(R(100), p) => a = MaxDeg(j)
                    /\ RLe(p, R(-100)) => a = MinDeg(j)
                    /\ (RLt(R(-100), p) /\ RLt(p, R(100))) =>
                           RMul(R(200), RSub(a, MinDeg(j)))
                           = RMul(RAdd(p, R(100)), RSub(MaxDeg(j), MinDeg(j)))

\* C4 witness: a command was dispatched for an action holding a percentage
\* above 100 and the joint was commanded to its maximum
C4_Witness ==
    /\ Sent
    /\ \E i \in JointIdx :
          /\ Present(i)
          /\ RLt(R(100), call.action[PosKey(JointNames[i])])
          /\ call.jointCmd[i] = MaxDeg(JointNames[i])

\* C9: teleop_safety_stop always attempts torque_set(cmd=0) and always
\* returns to its caller, connected or not, whether or not torque_set raises.
C9_SafetyStopNeverRaises ==
    call.op = "teleop_safety_stop" =>
        /\ call.result = "returned"
        /\ call.sdk.torqueSets = <<0>>

\* C9 witness: the stop was called on a disconnected robot and torque_set
\* raised
C9_Witness ==
    /\ call.op = "teleop_safety_stop"
    /\ ~isConnected[call.robot]
    /\ call.writeOut = "raise"
    /\ call.result = "returned"

\* C10: for every joint whose key is absent from the action, the angle
\* commanded is the joint's current position as held by the device, also when
\* the position read fails or returns nothing.
C10_AbsentKeyHoldsPosition ==
    Sent =>
        \A i \in JointIdx :
            ~Present(i) => call.jointCmd[i] = R(pose[call.robot][JointNames[i]])

\* C12: on a connected robot send_action never raises because a value is
\* out of range: the only exception is the KeyError of a key that is absent
\* while the position read returns nothing; otherwise one joint command is
\* dispatched, every present key's angle clamped into the joint's limits, and
\* a present gripper value is clamped into [0, 90] and dispatched too.
C12_NoRaiseOnOutOfRange ==
    (call.op = "send_action" /\ isConnected[call.robot]) =>
        /\ call.result # "returned" =>
               /\ call.result = "KeyError"
               /\ call.readOut = "none"
               /\ \E i \in JointIdx : ~Present(i)
        /\ call.result = "returned" =>
               /\ call.sdk.jointWrites = 1
               /\ Len(call.jointCmd) = Len(JointNames)
               /\ \A i \in JointIdx :
                      Present(i) => InLimits(JointNames[i], call.jointCmd[i])
               /\ GripperKey \in DOMAIN call.action =>
                      /\ call.sdk.gripWrites = 1
                      /\ RLe(R(0), call.gripCmd[1])
                      /\ RLe(call.gripCmd[1], R(90))

\* C12 witness: every key was present with a value below -100; the call
\* returned after commanding each joint to its minimum and the gripper to 0
C12_Witness ==
    /\ call.op = "send_action" /\ isConnected[call.robot]
    /\ call.result = "returned"
    /\ call.sdk.jointWrites = 1
    /\ \A i \in JointIdx :
          /\ Present(i)
          /\ RLt(call.action[PosKey(JointNames[i])], R(-100))
          /\ call.jointCmd[i] = MinDeg(JointNames[i])
    /\ call.gripCmd = <<R(0)>>

\* C19: send_action returns the action that was actually sent: for every
\* joint key of the action the returned value is the percentage whose affine
\* image on the joint's limits is the angle dispatched, so a value that was
\* clamped comes back clamped.
C19_ReturnsActionSent ==
    (call.op = "send_action" /\ call.result = "returned") =>
        \A i \in JointIdx :
            Present(i) =>
                /\ PosKey(JointNames[i]) \in DOMAIN call.ret
                /\ RMul(R(200), RSub(call.jointCmd[i], MinDeg(JointNames[i])))
                   = RMul(RAdd(call.ret[PosKey(JointNames[i])], R(100)),
                          RSub(MaxDeg(JointNames[i]), MinDeg(JointNames[i])))

\* C20: every "<joint_name>.pos" entry, the gripper's included, is read as a
\* percentage and mapped affinely onto the joint's limits: the angle given
\* to gripper_angle_ctrl is the affine image of the gripper entry on
\* (-10, 100), as is the gripper's entry of the joint command.
C20_GripperAsPercentage ==
    (call.op = "send_action" /\ call.result = "returned"
                            /\ GripperKey \in DOMAIN call.action) =>
        /\ call.jointCmd[Len(JointNames)]
               = PercentToDeg(GripperName, call.action[GripperKey])
        /\ call.gripCmd
               = <<PercentToDeg(GripperName, call.action[GripperKey])>>

-----------------------------------------------------------------------------
(* Properties of the position reads, under SpecRead *)

\* C11: a failed joint-angle read on a connected adapter never raises out of
\* get_observation or get_action, and what get_observation returns then
\* differs from what it returns after a successful read of any real position,
\* the all-zero position included.
C11_FailedReadReported ==
    /\ (call.op = "get_action" /\ isConnected[Teleoperator]
                               /\ call.readOut # "ok")
          => call.result = "returned"
    /\ (call.op = "get_observation" /\ call.result # "ConnectionError"
                                    /\ call.readOut # "ok")
          => /\ call.result = "returned"
             /\ \A q \in PoseSet, g \in ReadOutcomes :
                    call.obs # ObsDict(q, "ok", g)

-----------------------------------------------------------------------------
(* Properties of RoarmActionSafety.forward, under SpecSafety *)

SafetyJointKeys ==
    {PosKey(SafetyJointNames[i]) : i \in 1..Len(SafetyJointNames)}

\* C3: for any sequence of targets for one key of joint_names, each returned
\* value differs from the value returned before for that key by at most
\* max_joint_velocity*dt, and the first call for a key returns its target.
C3_StepBounded ==
    \A k \in DOMAIN limOut \cap SafetyJointKeys :
        IF k \in DOMAIN limPrev
        THEN RLe(RAbs(RSub(limOut[k], limPrev[k])), RMul(MaxJointVelocity, Dt))
        ELSE limOut[k] = limIn[k]

\* C3 witness: a downward jump larger than the step was cut to the step
C3_Witness ==
    \E k \in DOMAIN limOut \cap SafetyJointKeys :
        /\ k \in DOMAIN limPrev
        /\ RLt(limIn[k], limOut[k])
        /\ RSub(limPrev[k], limOut[k]) = RMul(MaxJointVelocity, Dt)

\* C15: the limiter is independent per key: in every forward call a key
\* absent from the action keeps its stored value and gets no returned value,
\* and the value returned and stored for a present key is the one forward
\* gives when the action holds that key alone.
C15_KeysIndependent ==
    [][ /\ DOMAIN limOut' = DOMAIN limIn'
        /\ \A k \in DOMAIN limiter \ DOMAIN limIn' :
               k \in DOMAIN limiter' /\ limiter'[k] = limiter[k]
        /\ \A k \in DOMAIN limIn' :
               LET alone == ForwardOp(limiter, [x \in {k} |-> limIn'[k]])
               IN  /\ limOut'[k] = alone.action[k]
                   /\ limiter'[k] = alone.last[k] ]_vars

\* C15 witness: an action holding both keys, of which the elbow was limited
\* from its stored value while the gripper, at its stored value, was not
C15_Witness ==
    /\ DOMAIN limIn = LimInputKeys
    /\ PosKey("elbow_flex") \in DOMAIN limPrev
    /\ limOut[PosKey("elbow_flex")] # limIn[PosKey("elbow_flex")]
    /\ GripperKey \in DOMAIN limPrev
    /\ limOut[GripperKey] = limIn[GripperKey]
    /\ limPrev[GripperKey] = limIn[GripperKey]

-----------------------------------------------------------------------------
(* Properties of the limiter from construction, under SpecScenario *)

\* C17: with max_velocity 3.0 and dt 0.1, a limiter with no stored state
\* maps the target sequence 0.0, 1.0, 1.0 of one key to 0.0, 0.3, 0.6, and
\* the value stored after the third call is the returned 0.6, not the target.
C17_LimiterScenario ==
    \A k \in SafetyJointKeys :
        (/\ Len(limTrace) >= 3
         /\ \A n \in 1..3 : k \in DOMAIN limTrace[n].target
         /\ limTrace[1].target[k] = R(0)
         /\ limTrace[2].target[k] = R(1)
         /\ limTrace[3].target[k] = R(1))
        => /\ limTrace[1].returned[k] = R(0)
           /\ limTrace[2].returned[k] = Rat(3, 10)
           /\ limTrace[3].returned[k] = Rat(6, 10)
           /\ Len(limTrace) = 3 => limiter[k] = Rat(6, 10)

\* C17 witness: elbow_flex.pos was given 0.0, 1.0, 1.0 and the third call
\* returned 0.6
C17_Witness ==
    /\ Len(limTrace) = 3
    /\ \A n \in 1..3 : DOMAIN limTrace[n].target = {PosKey("elbow_flex")}
    /\ limTrace[1].target[PosKey("elbow_flex")] = R(0)
    /\ limTrace[2].target[PosKey("elbow_flex")] = R(1)
    /\ limTrace[3].target[PosKey("elbow_flex")] = R(1)
    /\ limTrace[3].returned[PosKey("elbow_flex")] = Rat(6, 10)

-----------------------------------------------------------------------------
(* Properties of the limiter across control sessions, under SpecRestart *)

\* C14: when the control session restarts, the stored last values are
\* cleared: the first target for each key after the restart is returned
\* unmodified instead of being limited against a value from before.
C14_RestartClearsLastValues ==
    \A k \in DOMAIN limIn \cap DOMAIN limSession :
        limSession[k] => limOut[k] = limIn[k]

-----------------------------------------------------------------------------
(* Properties of the conversions, under SpecConvert *)

\* C5: round trip: for every joint and every percentage p in [-100, 100],
\* mapping p to degrees as send_action does and back to a percentage as
\* get_action does returns p.
C5_RoundTrip ==
    (conv.phase = "back" /\ RLe(R(-100), conv.pct) /\ RLe(conv.pct, R(100)))
        => conv.back = conv.pct

\* C5 witness: a percentage strictly inside the range went there and back
C5_Witness ==
    /\ conv.phase = "back"
    /\ RLt(R(0), conv.pct) /\ RLt(conv.pct, R(100))
    /\ ~(conv.deg = conv.pct)
    /\ conv.back = conv.pct

\* C16: with the configured limits of elbow_flex, (-70, 190) degrees, the
\* percentage 0 is mapped to 60 degrees, 100 to 190 degrees and -100 to -70
\* degrees.
C16_ElbowFlexScenario ==
    (conv.phase \in {"native", "back"} /\ conv.joint = "elbow_flex") =>
        /\ conv.pct = R(0) => conv.deg = R(60)
        /\ conv.pct = R(100) => conv.deg = R(190)
        /\ conv.pct = R(-100) => conv.deg = R(-70)

\* C16 witness: percentage 0 of elbow_flex was mapped, to 60 degrees
C16_Witness ==
    /\ conv.phase = "native"
    /\ conv.joint = "elbow_flex"
    /\ conv.pct = R(0)
    /\ conv.deg = R(60)

-----------------------------------------------------------------------------
(* Properties of the construction, under SpecConstruct *)

\* C18: a RoarmConfig is accepted only when exactly one of port and host is
\* given: construction raises ValueError when both are None and when both
\* are set.
C18_ExactlyOneOfPortHost ==
    \A r \in Robots :
        config[r].result # "pending" =>
            /\ config[r].result = "validated"
                   <=> ((config[r].port = "None") # (config[r].host = "None"))
            /\ (config[r].port = "None" /\ config[r].host = "None")
                   => config[r].result = "ValueError"
            /\ (config[r].port # "None" /\ config[r].host # "None")
                   => config[r].result = "ValueError"

\* C18 witness: the leader's configuration with port and host both set was
\* refused, the follower's with only a host was accepted and its Roarm built
C18_Witness ==
    /\ config["leader"].port # "None" /\ config["leader"].host # "None"
    /\ config["leader"].result = "ValueError"
    /\ config["follower"].port = "None"
    /\ config["follower"].link = "wifi"

-----------------------------------------------------------------------------
(* Properties of the RoarmTeleop control loop, under Spec *)

\* C1: in every tick in which the read of the leader's joint angles fails
\* (raises or returns nothing), the follower's joint write is not invoked.
C1_NoWriteAfterFailedRead ==
    \A t \in Threads :
        tlocal[t].readOut \in {"raise", "none"} => tlocal[t].writes = 0

\* C6: if stop() is called while a tick is executing, no further tick
\* starts: the loop sees running = false at the tick boundary and exits.
C6_NoTickAfterStop == hist.stopMid => ~hist.tickAfterStop

\* C6 witness: stop() arrived in mid-tick, the tick went on to its write and
\* the loop then left
C6_Witness ==
    /\ hist.stopMid
    /\ thread # 0
    /\ tpc[thread] = "exited"
    /\ tlocal[thread].writes = 1

\* C7: when stop() has returned, the control loop has fully exited: no tick
\* is in flight and none can write to the follower later.
C7_StopReturnsAfterLoopExit ==
    caller.pc = "done" => \A t \in Threads : ~Alive(t)

\* C8: if the leader's or the follower's connection attempt fails in
\* start(), start() fails with a connection error, running stays false and
\* no tick ever executes.
C8_StartFailsNotConnected ==
    hist.startFail \in {"leader", "follower"} =>
        /\ hist.startResult = "ConnectionError"
        /\ ~running
        /\ \A t \in Threads : tpc[t] = "unborn"

\* C8 witness: the follower's connection failed and main() went on to stop()
C8_Witness ==
    /\ hist.startFail = "follower"
    /\ isConnected["leader"] = FALSE
    /\ caller.pc = "done"

-----------------------------------------------------------------------------
(* Properties of the RoarmTeleop control loop under any caller, SpecSession *)

\* C13: ticks are strictly sequential: at no time are two ticks executing
\* concurrently, whatever the sequence of start() and stop() calls on the one
\* RoarmTeleop, start() twice without a stop() included.
C13_TicksSequential ==
    \A t \in Threads, u \in Threads : (InTick(t) /\ InTick(u)) => t = u

\* C21: a failure inside a tick (a failed read of the leader, an exception out
\* of an adapter, a failed write to the follower) never ends the control loop:
\* the thread leaves the loop only at the while test with running false, a
\* failed tick is followed by the next tick unless the loop was stopped, and
\* one tick attempts the follower's joint write at most once
C21_FailureContained ==
    /\ [][\A t \in Threads :
            /\ (tpc[t] # "exited" /\ tpc'[t] = "exited")
                  => (tpc[t] = "check" /\ ~running)
            /\ tlocal'[t].writes <= 1]_vars
    /\ \A t \in Threads :
          (tpc[t] = "sleep" /\ TickFailed(t))
             ~> (tpc[t] = "read" \/ tpc[t] = "exited")

\* a tick began right after a tick that failed
C21_Witness == hist.tickAfterFailure

\* C22: the end-of-tick step sleeps period - elapsed when that is positive
\* and not at all otherwise, so that the tick and its sleep together last
\* the longer of the period and the tick; each sleep is followed by the while
\* test and then by one tick that starts from nothing carried over, so an
\* overrun is never made up by ticks run back to back
C22_SleepsRemainderNoCatchUp ==
    [][\A t \in Threads :
         /\ (tpc[t] \notin {"unborn", "check"} /\ tpc'[t] = "check")
               => /\ tpc[t] = "sleep"
                  /\ tlocal'[t].timed
                  /\ IF tlocal'[t].elapsed < Period
                     THEN tlocal'[t].slept = Period - tlocal'[t].elapsed
                     ELSE tlocal'[t].slept = 0
                  /\ IF tlocal'[t].elapsed < Period
                     THEN tlocal'[t].elapsed + tlocal'[t].slept = Period
                     ELSE tlocal'[t].elapsed + tlocal'[t].slept
                             = tlocal'[t].elapsed
         /\ (tpc[t] # "read" /\ tpc'[t] = "read")
               => (tpc[t] = "check" /\ tlocal'[t] = NoTick)
         /\ (tpc[t] = "check" /\ tpc'[t] # "check")
               => tpc'[t] \in {"read", "exited"}]_vars

\* a tick overran by a whole period, the next tick ran and was short, and
\* the loop slept the rest of that tick's period
C22_Witness ==
    /\ hist.tickAfterOverrun
    /\ \E t \in Threads :
          /\ tpc[t] = "check"
          /\ tlocal[t].timed
          /\ tlocal[t].elapsed < Period
          /\ tlocal[t].slept = Period - tlocal[t].elapsed

\* C23: once stop() has set running to false, the loop thread begins no
\* further tick, and (every adapter call returning, the thread being
\* scheduled) it ends: what it still runs is the rest of the tick it was in
\* and that tick's sleep
C23_StopEndsLoop ==
    /\ [][\A t \in Threads :
            (hist.stopCalled /\ tpc'[t] # tpc[t])
               => /\ tpc[t] \in {"read", "send", "write", "sleep", "check"}
                  /\ tpc'[t] \in {"send", "write", "sleep", "check", "exited"}
                  /\ tpc[t] = "check" => tpc'[t] = "exited"]_vars
    /\ \A t \in Threads :
          (hist.stopCalled /\ Alive(t)) ~> (tpc[t] = "exited")

\* stop() came while the follower's write was about to be made; the thread
\* made the write, slept and ended
C23_Witness ==
    /\ hist.stopCalled
    /\ hist.stopMid
    /\ \E t \in Threads :
          /\ tpc[t] = "exited"
          /\ tlocal[t].writes = 1
          /\ tlocal[t].timed

\* C24: in a tick of the RoarmTeleop loop whose read of the leader succeeded,
\* the degree value commanded to each follower joint is the degree value the
\* leader's joint holds, brought to the nearest limit when outside the
\* joint's limits
C24_FollowerMirrorsLeader ==
    \A t \in Threads :
        (tpc[t] = "write" /\ tlocal[t].readOut = "ok")
           => \A i \in JointIdx :
                 tlocal[t].jointCmd[i]
                    = RClip(R(pose["leader"][JointNames[i]]),
                            MinDeg(JointNames[i]), MaxDeg(JointNames[i]))

\* C25: for the gripper key, the value forward returns differs from the value
\* it returned for that key before by at most max_gripper_velocity * dt, the
\* gripper being listed in joint_names as in the default configuration
C25_GripperStepBounded ==
    (GripperKey \in DOMAIN limOut /\ GripperKey \in DOMAIN limPrev)
       => RLe(RAbs(RSub(limOut[GripperKey], limPrev[GripperKey])),
              RMul(MaxGripperVelocity, Dt))

\* C26: a get_action that returns gives all six joint keys, each a
\* percentage in [-100, 100] whatever angle the device reported; a get_action
\* that does not return raised and gave no action at all
C26_ActionPercentagesBounded ==
    (call.op = "get_action")
       => IF call.result = "returned"
          THEN /\ DOMAIN call.ret = PosKeys
               /\ \A k \in PosKeys :
                     RLe(R(-100), call.ret[k]) /\ RLe(call.ret[k], R(100))
          ELSE call.ret = EmptyDict

\* C26 witness: the device reported an angle below the limits of
\* shoulder_lift and inside those of shoulder_pan; the first came back as
\* -100, the second strictly inside the range
C26_Witness ==
    /\ call.op = "get_action"
    /\ call.result = "returned"
    /\ RLt(R(pose[Teleoperator]["shoulder_lift"]), MinDeg("shoulder_lift"))
    /\ call.ret[PosKey("shoulder_lift")] = R(-100)
    /\ RLt(R(-100), call.ret[PosKey("shoulder_pan")])
    /\ RLt(call.ret[PosKey("shoulder_pan")], R(0))

\* C27: in every connect() or disconnect() of the teleoperator, the torque
\* command follows the connection transition: torque-disable goes out (its
\* torque_set returns) exactly when the call takes the teleoperator from
\* disconnected to connected, and connect() while connected calls nothing
\* and opens no SDK handle; torque-enable is attempted exactly when the call
\* takes it from connected to disconnected, and disconnect() while
\* disconnected calls nothing; after disconnect() the teleoperator is
\* disconnected whatever torque-enable did
C27_TorqueFollowsTransitions ==
    [][(call'.robot = Teleoperator /\ call'.op \in {"connect", "disconnect"})
         => /\ (/\ call'.op = "connect"
                /\ call'.result = "returned"
                /\ call'.sdk.torqueSets = <<0>>)
                  <=> (~isConnected[Teleoperator]
                         /\ isConnected'[Teleoperator])
            /\ (call'.sdk.torqueSets = <<1>>)
                  <=> (isConnected[Teleoperator]
                         /\ ~isConnected'[Teleoperator])
            /\ (call'.op = "connect" /\ isConnected[Teleoperator])
                  => (call'.sdk = NoSdk /\ isConnected'[Teleoperator])
            /\ (call'.op = "disconnect" /\ ~isConnected[Teleoperator])
                  => call'.sdk = NoSdk
            /\ (call'.op = "disconnect") => ~isConnected'[Teleoperator]
            /\ Len(call'.sdk.torqueSets) <= 1]_vars

\* C27 witness: a disconnect() of the connected teleoperator whose
\* torque-enable failed, and the teleoperator is disconnected
C27_Witness ==
    /\ call.robot = Teleoperator
    /\ call.op = "disconnect"
    /\ call.sdk.torqueSets = <<1>>
    /\ call.writeOut = "raise"
    /\ call.result = "returned"
    /\ ~isConnected[Teleoperator]

\* C28: a connect() of the Roarm that raised leaves _is_connected false,
\* and after a disconnect() of the Roarm _is_connected is false and the
\* torque release was attempted
C28_FailedConnectNotConnected ==
    /\ (call.robot = LinkRobot /\ call.op = "connect"
           /\ call.result # "returned")
          => ~isConnected[LinkRobot]
    /\ (call.robot = LinkRobot /\ call.op = "disconnect")
          => (~isConnected[LinkRobot] /\ call.sdk.torqueSets = <<0>>)

\* C29: get_observation and send_action of a Roarm whose is_connected is
\* false (never connected, disconnected, or its camera not connected) raise
\* ConnectionError and call nothing on the device; get_action and
\* get_observation of a teleoperator that is not connected raise
\* RuntimeError and call nothing on the device
C29_NotConnectedNoDeviceCall ==
    [][/\ (/\ call'.robot = LinkRobot
           /\ call'.op \in {"get_observation", "send_action"}
           /\ ~(isConnected[LinkRobot] /\ camera))
             => /\ call'.result = "ConnectionError"
                /\ call'.sdk = NoSdk
                /\ call'.jointCmd = NoCmd
                /\ call'.gripCmd = NoCmd
       /\ (/\ call'.robot = Teleoperator
           /\ call'.op \in {"get_action", "get_observation"}
           /\ ~isConnected[Teleoperator])
             => /\ call'.result = "RuntimeError"
                /\ call'.sdk = NoSdk]_vars

\* C29 witness: send_action with all six keys on a Roarm whose
\* _is_connected is true and whose camera is not connected raised
\* ConnectionError
C29_Witness ==
    /\ call.robot = LinkRobot
    /\ call.op = "send_action"
    /\ DOMAIN call.action = PosKeys
    /\ isConnected[LinkRobot]
    /\ ~camera
    /\ call.result = "ConnectionError"
    /\ call.sdk = NoSdk

\* C30: every pose a trajectory loop has sent has z >= 50 mm; when the loop
\* modulates yaw the yaw sent is within [0, 85] degrees, and when it
\* modulates pitch the pitch sent is within [-85, 85] degrees; the loop
\* sends one pose per step and, when it returns, has sent
\* int(duration_sec * fps) of them
C30_TrajectoryWithinBounds ==
    /\ cart.sent = cart.i
    /\ cart.sent > 0
          => /\ RLe(R(50), cart.pose[3])
             /\ cart.args.rotate
                   => (RLe(R(0), cart.pose[6]) /\ RLe(cart.pose[6], R(85)))
             /\ cart.args.tilt
                   => (RLe(R(-85), cart.pose[5]) /\ RLe(cart.pose[5], R(85)))
    /\ cart.done => cart.sent = (cart.args.tenths * cart.args.fps) \div 10

\* C30 witness: smooth_line along x from z = 0 with yaw and pitch modulated
\* from -80 degrees has returned after its 12 poses, the last with z raised
\* to 50 mm, yaw held at 0 and pitch held at -85
C30_Witness ==
    /\ cart.fn = "smooth_line"
    /\ cart.done
    /\ cart.sent = 12
    /\ cart.args.axis = 0
    /\ cart.args.rotate /\ cart.args.tilt
    /\ cart.args.initial[3] = R(0)
    /\ cart.args.initial[6] = R(-AngleStep)
    /\ cart.pose[3] = R(50)
    /\ cart.pose[6] = R(0)
    /\ cart.pose[5] = R(-85)

====
